---- MODULE Spec2Model ----
(***************************************************************************)
(* Model of keras_cv.layers.regularization.stochastic_depth.StochasticDepth *)
(* (src/keras_cv/layers/regularization/stochastic_depth.py).               *)
(*                                                                         *)
(* Numbers.  Every real number of the program (a tensor element, the       *)
(* survival probability, a Bernoulli sample) is held as an integer count   *)
(* of halves: 1.0 is 2, 0.5 is 1, -0.5 is -1.  Tensor elements are whole   *)
(* numbers, so every product p * b the model forms is again a count of     *)
(* halves and the arithmetic below is exact, as the float arithmetic of    *)
(* the program is on these values.                                         *)
(*                                                                         *)
(* Python's True, False and None are the strings "True", "False", "None".  *)
(***************************************************************************)
EXTENDS Integers, Sequences, FiniteSets, TLC

\* ---------------------------------------------------------------- bounds

\* Number of elements of a tensor.
TensorLen == 2

\* Tensor elements are the whole numbers 1..MaxElem.
MaxElem == 2

\* Input collections have 0..MaxArity elements.
MaxArity == 3

\* Survival probabilities range over -0.5 .. MaxP/2, in steps of 0.5.
MaxP == 3

\* Bernoulli samples the random source hands out before the model stops
\* calls that would draw another one.
MaxDraws == 2

\* --------------------------------------------------------------- numbers

\* The whole number n as a count of halves.
Real(n) == 2 * n

\* A mutant of Times: the factors are cut to whole numbers first, as an
\* integer cast of the probability would.
TimesOfWholes(x, y) == 2 * ((x \div 2) * (y \div 2))

\* x * y of two counts of halves, as a count of halves.
Times(x, y) == (x * y) \div 2

\* survival_probability=0.5, the default of __init__.
DefaultSurvivalProbability == 1

Elems == {Real(v) : v \in 1..MaxElem}
Tensors == [1..TensorLen -> Elems]
PVals == (0 - 1)..MaxP
Trainings == {"True", "False", "None"}

\* shortcut + residual, element by element.
Add(s, t) == [i \in DOMAIN s |-> s[i] + t[i]]

\* scalar * tensor: the scalar is broadcast over every element.
Scale(c, t) == [i \in DOMAIN t |-> Times(c, t[i])]

\* ----------------------------------------------------------------- layer

\* What tf.keras.layers.Layer.__init__(**kwargs) keeps and
\* Layer.get_config() reports back, as (key, value) items.
BaseConfigItems(self) == << <<"name", self.name>>, <<"trainable", self.trainable>> >>

\* dict(items): the keys of the items, each with the value of its LAST item.
Dict(items) ==
    [k \in {items[i][1] : i \in DOMAIN items} |->
        LET last == CHOOSE i \in DOMAIN items :
                        /\ items[i][1] = k
                        /\ \A j \in DOMAIN items : items[j][1] = k => j <= i
        IN items[last][2]]

\* A mutant of Init__: the probability is clamped to [0, 1].
Init__Clamping(kwargs) ==
    LET p == IF "survival_probability" \in DOMAIN kwargs
             THEN kwargs["survival_probability"]
             ELSE DefaultSurvivalProbability
    IN [survival_probability |-> IF p < Real(0) THEN Real(0)
                                 ELSE IF p > Real(1) THEN Real(1) ELSE p,
        name |-> IF "name" \in DOMAIN kwargs THEN kwargs["name"] ELSE "stochastic_depth",
        trainable |-> IF "trainable" \in DOMAIN kwargs THEN kwargs["trainable"] ELSE TRUE]

\* StochasticDepth.__init__(survival_probability=0.5, **kwargs), called with
\* the keyword arguments kwargs (a function from argument names to values).
Init__(kwargs) ==
    [survival_probability |->
        IF "survival_probability" \in DOMAIN kwargs
        THEN kwargs["survival_probability"]
        ELSE DefaultSurvivalProbability,
     name |-> IF "name" \in DOMAIN kwargs THEN kwargs["name"] ELSE "stochastic_depth",
     trainable |-> IF "trainable" \in DOMAIN kwargs THEN kwargs["trainable"] ELSE TRUE]

\* A mutant of get_config: the layer's own entry is left out.
get_config_BaseOnly(self) == Dict(BaseConfigItems(self))

\* StochasticDepth.get_config.
get_config(self) ==
    LET config == << <<"survival_probability", self.survival_probability>> >>
        base_config == BaseConfigItems(self)
    IN Dict(base_config \o config)

\* ------------------------------------------------------------------ call

\* A mutant of ErrorMessage: the expected length is reported.
ErrorMessageExpected(n) ==
    <<"Input must be a list of length 2. ", "Got input with length=", ToString(2), ".">>

\* The ValueError's message, as the fragments the f-strings concatenate.
ErrorMessage(n) ==
    <<"Input must be a list of length 2. ", "Got input with length=", ToString(n), ".">>

\* A mutant of Truthy: only False is falsy.
TruthyUnlessFalse(training) == training # "False"

\* `if training:` : None and False are falsy.
Truthy(training) == training = "True"

\* A mutant of RandomBernoulli: a uniform sample instead of a 0/1 one.
RandomBernoulliUniform(p) == Real(0)..Real(1)

\* tf.random.uniform([]): a sample of [0, 1), 0.0 included and 1.0 excluded,
\* held as a count of quarters (0.0, 0.25, 0.5, 0.75) so that a sample lies
\* strictly between any two probabilities of the model.
RandomUniform == {u \in 0..(2 * Real(1)) : u < 2 * Real(1)}

\* tf.keras.backend.random_bernoulli([], p=p), as the library computes it:
\* where(uniform([]) <= p, 1.0, 0.0).  The comparison is not strict, so a
\* uniform sample of exactly 0.0 yields 1.0 at p = 0.0.
RandomBernoulli(p) ==
    {IF u <= 2 * p THEN Real(1) ELSE Real(0) : u \in RandomUniform}

\* A mutant of call: the sample is stored on the layer.
callStoringSample(self, x, training, sample) ==
    IF Len(x) # 2
    THEN [raised |-> TRUE, msg |-> ErrorMessage(Len(x)), out |-> <<>>,
          draws |-> <<>>, self |-> self, x |-> x]
    ELSE [raised |-> FALSE, msg |-> <<>>,
          out |-> IF Truthy(training)
                  THEN Add(x[1], Scale(sample, x[2]))
                  ELSE Add(x[1], Scale(self.survival_probability, x[2])),
          draws |-> <<sample>>,
          self |-> [self EXCEPT !.survival_probability = sample], x |-> x]

\* A mutant of call: the sample is drawn before the length is checked.
callDrawFirst(self, x, training, sample) ==
    IF Len(x) # 2
    THEN [raised |-> TRUE, msg |-> ErrorMessage(Len(x)), out |-> <<>>,
          draws |-> <<sample>>, self |-> self, x |-> x]
    ELSE [raised |-> FALSE, msg |-> <<>>,
          out |-> IF Truthy(training)
                  THEN Add(x[1], Scale(sample, x[2]))
                  ELSE Add(x[1], Scale(self.survival_probability, x[2])),
          draws |-> <<sample>>, self |-> self, x |-> x]

\* StochasticDepth.call(x, training), with `sample` what the random source
\* yields if it is asked.  The result names what is raised or returned, the
\* samples taken from the random source (draws), and the layer and the
\* input collection as the call leaves them.
call(self, x, training, sample) ==
    IF Len(x) # 2
    THEN [raised |-> TRUE, msg |-> ErrorMessage(Len(x)), out |-> <<>>,
          draws |-> <<>>, self |-> self, x |-> x]
    ELSE LET shortcut == x[1]
             residual == x[2]
             b_l == sample
         IN [raised |-> FALSE, msg |-> <<>>,
             out |-> IF Truthy(training)
                     THEN Add(shortcut, Scale(b_l, residual))
                     ELSE Add(shortcut, Scale(self.survival_probability, residual)),
             draws |-> <<b_l>>, self |-> self, x |-> x]

\* ----------------------------------------------------------------- state

VARIABLES
    ctorKwargs,   \* the keyword arguments the layer was constructed with
    layer,        \* the layer object: its attributes
    tensors,      \* the caller's two tensors, <<a, b>>
    rng,          \* samples taken so far from the framework's random source
    last          \* the last operation on the layer and its outcome

vars == <<ctorKwargs, layer, tensors, rng, last>>

\* The input collection of n elements the caller builds from its tensors:
\* a, b, a, ...
Collection(n) == [i \in 1..n |-> tensors[2 - (i % 2)]]

NoOp == [op |-> "none", x |-> <<>>, training |-> "None", rngBefore |-> 0,
         raised |-> FALSE, msg |-> <<>>, out |-> <<>>, draws |-> <<>>,
         xAfter |-> <<>>, config |-> <<>>, clone |-> <<>>]

CtorKwargs ==
    {<<>>} \cup {[k \in {"survival_probability"} |-> p] : p \in PVals}

Init ==
    /\ ctorKwargs \in CtorKwargs
    /\ layer = Init__(ctorKwargs)
    /\ tensors \in Tensors \X Tensors
    /\ rng = 0
    /\ last = NoOp

\* layer(x, training=training); training=None is also what an omitted
\* argument is.
Call ==
    \E n \in 0..MaxArity, training \in Trainings :
        \E sample \in RandomBernoulli(layer.survival_probability) :
            LET x == Collection(n)
                r == call(layer, x, training, sample)
            IN /\ rng + Len(r.draws) <= MaxDraws
               /\ layer' = r.self
               /\ rng' = rng + Len(r.draws)
               /\ last' = [NoOp EXCEPT !.op = "call", !.x = x, !.training = training,
                                       !.rngBefore = rng, !.raised = r.raised,
                                       !.msg = r.msg, !.out = r.out,
                                       !.draws = r.draws, !.xAfter = r.x]
               /\ UNCHANGED <<ctorKwargs, tensors>>

\* layer.get_config()
GetConfig ==
    /\ last' = [NoOp EXCEPT !.op = "get_config", !.rngBefore = rng,
                            !.config = get_config(layer)]
    /\ UNCHANGED <<ctorKwargs, layer, tensors, rng>>

\* StochasticDepth(**config) on the mapping the last get_config returned.
FromConfig ==
    /\ last.op = "get_config"
    /\ last' = [NoOp EXCEPT !.op = "from_config", !.rngBefore = rng,
                            !.config = last.config,
                            !.clone = Init__(last.config)]
    /\ UNCHANGED <<ctorKwargs, layer, tensors, rng>>

Next == Call \/ GetConfig \/ FromConfig

Spec == Init /\ [][Next]_vars

\* ---------------------------------------------------------------- claims

\* What the constructor was asked to store: the survival_probability it was
\* given, or 0.5 when it was given none.
Requested ==
    IF "survival_probability" \in DOMAIN ctorKwargs
    THEN ctorKwargs["survival_probability"]
    ELSE DefaultSurvivalProbability

\* The last operation was a call on a pair <<a, b>>.
CalledOnPair == last.op = "call" /\ Len(last.x) = 2

\* out = a + (c/2) * b in every element, stated over the integers:
\* 2 * out[i] = 2 * a[i] + c * b[i].
IsWeightedSum(out, a, c, b) ==
    /\ DOMAIN out = DOMAIN a
    /\ \A i \in DOMAIN a : 2 * out[i] = 2 * a[i] + c * b[i]

\* C1: a call with training=False on a pair (a, b) returns exactly a + p*b,
\* element by element, whatever sample the random source yielded and however
\* many calls went before.
C1_InferenceIsExact ==
    (CalledOnPair /\ last.training = "False") =>
        /\ ~last.raised
        /\ IsWeightedSum(last.out, last.x[1], layer.survival_probability, last.x[2])

\* C1's case: the second call of a layer with p = 0.5 on a = [1,1], b = [2,2],
\* in inference mode, with the random source yielding 0: the result is [2,2].
C1_Witness ==
    /\ CalledOnPair /\ last.training = "False"
    /\ layer.survival_probability = 1
    /\ last.x = << <<2, 2>>, <<4, 4>> >>
    /\ last.draws = <<0>> /\ rng = 2
    /\ last.out = <<4, 4>>

\* C2: a call with training=True on a pair (a, b) takes one sample b_l in
\* {0, 1} and returns a in every element or a + b in every element.
C2_TrainingIsAllOrNothing ==
    (CalledOnPair /\ last.training = "True") =>
        /\ ~last.raised
        /\ Len(last.draws) = 1
        /\ last.draws[1] \in {Real(0), Real(1)}
        /\ \/ last.out = last.x[1]
           \/ last.out = Add(last.x[1], last.x[2])

\* C2's case: a training call with p = 0.5 that dropped the residual branch.
C2_Witness ==
    /\ CalledOnPair /\ last.training = "True"
    /\ layer.survival_probability = 1
    /\ last.out = last.x[1]
    /\ last.out # Add(last.x[1], last.x[2])

\* C3: a call on a collection whose length n is not 2 raises, whatever the
\* training flag, returns no tensor, and its message holds "length=" followed
\* by n.
C3_BadArityRaises ==
    (last.op = "call" /\ Len(last.x) # 2) =>
        /\ last.raised
        /\ last.out = <<>>
        /\ \E i \in 1..(Len(last.msg) - 1) :
              /\ last.msg[i] = "Got input with length="
              /\ last.msg[i + 1] = ToString(Len(last.x))

\* C3's case: a training call on three tensors.
C3_Witness ==
    /\ last.op = "call" /\ Len(last.x) = 3 /\ last.training = "True"
    /\ last.raised
    /\ last.msg[3] = "3"

\* C4: a call in inference mode (training False or None) takes no sample and
\* leaves the random source as it was.
C4_InferenceDrawsNothing ==
    (last.op = "call" /\ last.training \in {"False", "None"}) =>
        /\ last.draws = <<>>
        /\ rng = last.rngBefore

\* C5: a call with training=None has the outcome the same call has with
\* training=False, whatever the random source yields.
C5_NoneIsFalse ==
    (last.op = "call" /\ last.training = "None") =>
        \A sample \in RandomBernoulli(layer.survival_probability) :
            LET r == call(layer, last.x, "False", sample)
            IN /\ last.raised = r.raised
               /\ last.msg = r.msg
               /\ last.out = r.out

\* C5's case: a call with training=None on a pair, with p = 0.5 and the random
\* source yielding 1, returns a + 0.5 * b, which is neither a nor a + b.
C5_Witness ==
    /\ CalledOnPair /\ last.training = "None"
    /\ layer.survival_probability = 1
    /\ last.draws = <<2>>
    /\ IsWeightedSum(last.out, last.x[1], 1, last.x[2])
    /\ last.out # Add(last.x[1], last.x[2])

\* C6: with p = 1.0 every training call returns a + b, and with p = 0.0 every
\* training call returns a.
C6_DegenerateEndpoints ==
    (CalledOnPair /\ last.training = "True") =>
        /\ layer.survival_probability = Real(1) => last.out = Add(last.x[1], last.x[2])
        /\ layer.survival_probability = Real(0) => last.out = last.x[1]

\* C7: get_config returns a mapping with the layer's survival_probability and
\* the base layer's fields, and the constructor applied to that mapping yields
\* a layer with the same survival_probability.
C7_ConfigRoundTrip ==
    /\ last.op \in {"get_config", "from_config"} =>
          /\ {"survival_probability", "name", "trainable"} \subseteq DOMAIN last.config
          /\ last.config["survival_probability"] = layer.survival_probability
          /\ last.config["name"] = layer.name
          /\ last.config["trainable"] = layer.trainable
    /\ last.op = "from_config" =>
          last.clone.survival_probability = layer.survival_probability

\* C7's case: a layer with p = 1.5 rebuilt from its configuration.
C7_Witness ==
    /\ last.op = "from_config"
    /\ layer.survival_probability = 3
    /\ last.clone.survival_probability = 3

\* C8: after any sequence of calls and get_config calls the layer is the one
\* the constructor built, its survival_probability the value requested, and a
\* call leaves its input collection as it was passed.
C8_ConfigurationIsFixed ==
    /\ layer = Init__(ctorKwargs)
    /\ layer.survival_probability = Requested
    /\ last.op = "call" => last.xAfter = last.x

\* C8's case: a raising call that follows two calls that returned, on a layer
\* built with p = 0.5.
C8_Witness ==
    /\ last.op = "call" /\ last.raised
    /\ rng = 2
    /\ Requested = 1

\* C9: the constructor stores any value unchanged, below 0 and above 1
\* included, and 0.5 when given none; an inference call multiplies by exactly
\* that value.
C9_NoValidation ==
    /\ "survival_probability" \in DOMAIN ctorKwargs =>
          layer.survival_probability = ctorKwargs["survival_probability"]
    /\ "survival_probability" \notin DOMAIN ctorKwargs =>
          layer.survival_probability = DefaultSurvivalProbability
    /\ (CalledOnPair /\ last.training \in {"False", "None"}) =>
          IsWeightedSum(last.out, last.x[1], Requested, last.x[2])

\* C9's case: a layer built with p = -0.5, called in inference mode on
\* a = [1,1], b = [2,2]: the result is [0,0].
C9_Witness ==
    /\ ctorKwargs = [k \in {"survival_probability"} |-> 0 - 1]
    /\ CalledOnPair /\ last.training = "False"
    /\ last.x = << <<2, 2>>, <<4, 4>> >>
    /\ last.out = <<0, 0>>

\* C10: a call that raises takes no sample: the random source and the layer
\* are after the call what they were before it, in either mode.
C10_FailedCallDrawsNothing ==
    [][(last'.op = "call" /\ last'.raised) => (rng' = rng /\ layer' = layer)]_vars

\* C10's case: a raising training call after a sample was taken.
C10_Witness ==
    /\ last.op = "call" /\ last.raised /\ last.training = "True"
    /\ last.draws = <<>>
    /\ rng = 1 /\ last.rngBefore = 1

====
